---------------------------- MODULE Spec2Model ----------------------------
(***************************************************************************)
(* Model of CameraHandler (src/CameraHandler.py): the acquisition thread   *)
(* (_snap_update), the processing thread (_update), the parameter queue,   *)
(* the two control queues and the caller of start / stop / update_param /  *)
(* take_dark_img / take_static_img; and of the GUI shutdown of             *)
(* src/TkInterface.py: the histogram thread of ContrastPlot and the Tk     *)
(* main thread in pre_exiting and _exiting.                                *)
(*                                                                         *)
(* A frame is identified by its arrival number (1, 2, ...).  An image      *)
(* produced by the processing thread is a record that names the cycle that *)
(* produced it, the frames that were blended and the parameters that each  *)
(* pipeline step used, with the value of one pixel (pix) and the shape of  *)
(* the array.  The camera looks at a scene that does not change, so every  *)
(* frame of a behaviour holds the same pixel value.                        *)
(***************************************************************************)
EXTENDS Integers, Sequences, FiniteSets, TLC

---------------------------------------------------------------------------
(* Program constants *)

\* self._MAX_INTEGRATION_LEN = 50
MAX_INTEGRATION_LEN == 50

\* queue.Queue(maxsize=32), the three queues of __init__
QUEUE_MAXSIZE == 32

\* self.BIT_DEPTH for _INPUT_BIT_DEPTH = 256: log2 = 8 >= 8, so 2^16
BIT_DEPTH == 65536

\* self._INPUT_BIT_DEPTH = 256
INPUT_BIT_DEPTH == 256

\* int(np.power(2.0, np.log2(self.BIT_DEPTH) - np.log2(self._INPUT_BIT_DEPTH)))
INPUT_TO_OUTPUT_BIT_DEPTH_MULT == BIT_DEPTH \div INPUT_BIT_DEPTH

(* Bounds of the model *)

\* frames the camera delivers in specification Spec
MaxSnaps == 2
\* frames the camera delivers in specification SpecRing (overflows the history)
MaxRingSnaps == 52
\* frames the camera delivers in specification SpecLive
MaxSnapsLive == 1
\* processing cycles told apart by the cycle tag (the tag saturates here)
MaxCycles == 2
\* parameter updates the caller leaves pending in specification Spec
MaxPending == 1
\* parameter updates the caller leaves pending in specification SpecParams
MaxPendingDrain == 3
\* updates of the running drain that the drain log remembers
MaxDrainLog == 2
\* frames the camera has delivered when specification SpecBlend begins
MaxBlendGrabbed == 2
\* frames the camera delivers while specification SpecBlend runs
MaxBlendSnaps == 1
\* frames the camera delivers while specification SpecWin runs
MaxWinSnaps == 1
\* log2 of the largest _INPUT_BIT_DEPTH that specification SpecDepth constructs
MaxInputBits == 64
\* PauseRender commands the histogram thread has not taken yet (clicks on Exit
\* before the timer of pre_exiting fires)
MaxPauseCmds == 2

---------------------------------------------------------------------------
VARIABLES
  img_queue,            \* self._img_queue: frames, oldest first
  pixels,               \* _snap_update: the frame captured in this cycle (0: none)
  snap_pc,              \* position of the acquisition thread
  snap_thread_queue,    \* self._snap_thread_queue
  update_thread_queue,  \* self._update_thread_queue
  parameters_queue,     \* self._parameters_queue
  upd_pc,               \* position of the processing thread
  params,               \* _update: the local dict params
  result,               \* _update: the local image result
  nb_images,            \* _update: nb_images of the integration loop
  i,                    \* _update: loop index of the integration loop
  gate,                 \* _update: the closure variables <<gate_low, gate_high>>
  last_integrated_img,  \* self._last_integrated_img
  last_equalized_img,   \* self._last_equalized_img
  last_final_img,       \* self._last_final_img
  caller_pc,            \* position of the thread that calls the public methods
  put_item,             \* the update a blocked update_param is waiting to enqueue
  take_key,             \* "dark" / "static" while take_dark_img / take_static_img
                        \* runs, "none" otherwise
  disk,                 \* the files images/dark.png and images/static.png
  scene,                \* the value the camera delivers for the pixel followed
  depth,                \* __init__: _INPUT_BIT_DEPTH, _image_dtype, BIT_DEPTH and
                        \* _INPUT_TO_OUTPUT_BIT_DEPTH_MULT, as exponents of 2
  gui_pc,               \* TkInterface: position of the Tk main thread
  plot_pc,              \* ContrastPlot: position of the histogram thread
  pause_render,         \* _thread_update_function: the local pause_render
  running,              \* _thread_update_function: the local running
  thread_stop_queue,    \* ContrastPlot._thread_stop_queue
  nsnap,                \* history: number of frames captured so far
  cycle,                \* history: tag of the running processing cycle
  cycle_params,         \* history: params when the drain of this cycle ended
  drained,              \* history: the last updates applied by the running drain
  shadow,               \* history: per key, the value last enqueued
  pushes_after_exit,    \* history: frames pushed since stop() put Exit for the
                        \* acquisition thread (-1 before; saturates at 2)
  publishes_after_exit, \* history: results published since stop() put Exit for the
                        \* processing thread (-1 before; saturates at 2)
  stop_returned         \* history: a call of stop() has returned

vars == <<img_queue, pixels, snap_pc, snap_thread_queue, update_thread_queue,
          parameters_queue, upd_pc, params, result, nb_images, i, gate,
          last_integrated_img, last_equalized_img, last_final_img,
          caller_pc, put_item, take_key, disk, scene, depth,
          gui_pc, plot_pc, pause_render, running, thread_stop_queue,
          nsnap, cycle, cycle_params, drained, shadow,
          pushes_after_exit, publishes_after_exit, stop_returned>>

snapVars == <<img_queue, pixels, snap_pc, snap_thread_queue, scene, depth,
              nsnap, pushes_after_exit>>
updVars == <<update_thread_queue, upd_pc, params, result, nb_images, i, gate,
             last_integrated_img, last_equalized_img, last_final_img,
             cycle, cycle_params, drained, publishes_after_exit>>
callerVars == <<caller_pc, put_item, take_key, disk, stop_returned>>
guiVars == <<gui_pc, plot_pc, pause_render, running, thread_stop_queue>>

---------------------------------------------------------------------------
(* Values *)

Min(a, b) == IF a < b THEN a ELSE b

\* Python's None where an image is expected
NoneImg == [cycle |-> 0, newest |-> 0, blend |-> <<>>, sub |-> "none",
            gate |-> <<>>, overlay |-> -1, pix |-> 0, shape |-> "none"]

\* pixels.astype(self._image_dtype), cvtColor, pixels * _INPUT_TO_OUTPUT_BIT_DEPTH_MULT:
\* the product is taken in the working type, modulo BIT_DEPTH
FramePixel(raw) == (raw * INPUT_TO_OUTPUT_BIT_DEPTH_MULT) % BIT_DEPTH

\* result = np.array(self._img_queue[-1])
RawImg(c, f) == [cycle |-> c, newest |-> f, blend |-> <<>>, sub |-> "none",
                 gate |-> <<>>, overlay |-> -1,
                 pix |-> FramePixel(scene), shape |-> "frame"]

\* an image file of images/, as cv2.imread returns it: pixel value p, and the
\* shape of the live frames ("frame") or another shape ("other")
StoredImg(p, shp) == [NoneImg EXCEPT !.pix = p, !.shape = shp]

\* images/ holds neither dark.png nor static.png
NoDisk == [dark |-> NoneImg, static |-> NoneImg]

\* a gate bound held by params: the Python int of the dict as built, or the float
\* a Tk scale sends
PyInt(n) == [num |-> n, float |-> FALSE]

PyFloat(x) == [num |-> x, float |-> TRUE]

\* the dict params of _update as built.  subtraction_mode holds a string:
\* "subtract" as built, "True" / "False" for the booleans a check button sends.
DefaultParams ==
  [dark |-> NoneImg, static |-> NoneImg, subtract_dark |-> FALSE,
   overlay_static |-> FALSE, overlay_opacity |-> 50, subtraction_mode |-> "subtract",
   integration_val |-> 1, integration |-> FALSE,
   gate_low |-> PyInt(1), gate_high |-> PyInt(BIT_DEPTH - 1)]

\* params after the two imread calls that open _update
LoadedParams(d) == [DefaultParams EXCEPT !.dark = d.dark, !.static = d.static]

\* the updates a caller passes to update_param
ParamUpdates ==
  { <<"gate_low", PyFloat(2)>>, <<"gate_high", PyFloat(2)>>, <<"integration", TRUE>> }

\* the updates of specification SpecParams: two values of one key, and another key
DrainUpdates ==
  { <<"gate_low", PyFloat(1)>>, <<"gate_low", PyFloat(2)>>, <<"gate_high", PyFloat(2)>> }

\* the update of specification SpecLive
LiveUpdates == { <<"integration", TRUE>> }

\* the update of specification SpecSat
SatUpdates == { <<"overlay_opacity", 50>> }

\* the pixel value of the scene in the specifications that do not vary it
DefaultScene == 125

\* the last n of the frames 1 .. k, in arrival order
LastFrames(k, n) == [j \in 1..n |-> k - n + j]

\* threading.Thread.is_alive()
IsAlive(pc) == pc \notin {"unstarted", "done", "dead"}

\* get_last_img
get_last_img == IF Len(img_queue) # 0 THEN img_queue[Len(img_queue)] ELSE 0

\* np.array(None): a 0-d object array, which is not None
ArrayOfNone == [cycle |-> 0, newest |-> 0, blend |-> <<>>, sub |-> "ndarray(None)",
                gate |-> <<>>, overlay |-> -1, pix |-> 0, shape |-> "()"]

\* get_last_integrated_img
get_last_integrated_img == last_integrated_img

\* get_last_equalized_img
get_last_equalized_img == last_equalized_img

\* get_last_final_img: np.array(self._last_final_img)
get_last_final_img ==
  IF last_final_img = NoneImg THEN ArrayOfNone ELSE last_final_img

---------------------------------------------------------------------------
\* np.log2 of a power of two
RECURSIVE Log2(_)
Log2(n) == IF n <= 1 THEN 0 ELSE 1 + Log2(n \div 2)

\* np.log2(self._INPUT_BIT_DEPTH) of the shipped constant
INPUT_BITS == Log2(INPUT_BIT_DEPTH)

\* np.power(2, e) on Python ints: numpy computes in int64 and wraps, so 2^64 is 0.
\* A number is held by its exponent: [zero |-> FALSE, log2 |-> e] is 2^e and
\* [zero |-> TRUE, log2 |-> 0] is 0.
PowerOfTwoInt64(e) ==
  IF e >= 64 THEN [zero |-> TRUE, log2 |-> 0] ELSE [zero |-> FALSE, log2 |-> e]

\* the dtype selection of __init__ for _INPUT_BIT_DEPTH = 2^k: bits is the width of
\* self._image_dtype, bit_depth is self.BIT_DEPTH
WorkingDepth(k) ==
  IF k > 32 THEN [bits |-> 64, bit_depth |-> PowerOfTwoInt64(64)]
  ELSE IF k > 16 THEN [bits |-> 32, bit_depth |-> PowerOfTwoInt64(32)]
  ELSE IF k >= 8 THEN [bits |-> 16, bit_depth |-> PowerOfTwoInt64(16)]
  ELSE [bits |-> 8, bit_depth |-> PowerOfTwoInt64(8)]

\* int(np.power(2.0, np.log2(bit_depth) - k)): np.log2(0) is -inf and 2.0^-inf is
\* 0.0; a negative exponent gives a fraction that int() truncates to 0
DepthMult(bit_depth, k) ==
  IF bit_depth.zero \/ bit_depth.log2 < k
  THEN [zero |-> TRUE, log2 |-> 0]
  ELSE [zero |-> FALSE, log2 |-> bit_depth.log2 - k]

\* the fields __init__ derives from _INPUT_BIT_DEPTH = 2^k
SelectDepth(k) ==
  LET w == WorkingDepth(k)
  IN [k |-> k, bits |-> w.bits, bit_depth |-> w.bit_depth,
      mult |-> DepthMult(w.bit_depth, k)]

\* the state after CameraHandler(...) with _INPUT_BIT_DEPTH = 2^k, when images/
\* holds the files d and the camera looks at a scene of pixel value sc
ConstructedFor(k, d, sc) ==
  /\ img_queue = <<>>
  /\ pixels = 0
  /\ snap_pc = "unstarted"
  /\ snap_thread_queue = <<>>
  /\ update_thread_queue = <<>>
  /\ parameters_queue = <<>>
  /\ upd_pc = "unstarted"
  /\ params = DefaultParams
  /\ result = NoneImg
  /\ nb_images = 0
  /\ i = 0
  /\ gate = <<DefaultParams.gate_low, DefaultParams.gate_high>>
  /\ last_integrated_img = NoneImg
  /\ last_equalized_img = NoneImg
  /\ last_final_img = NoneImg
  /\ caller_pc = "idle"
  /\ put_item = <<>>
  /\ take_key = "none"
  /\ disk = d
  /\ scene = sc
  /\ depth = SelectDepth(k)
  /\ gui_pc = "init"
  /\ plot_pc = "unstarted"
  /\ pause_render = FALSE
  /\ running = TRUE
  /\ thread_stop_queue = <<>>
  /\ stop_returned = FALSE
  /\ nsnap = 0
  /\ cycle = 0
  /\ cycle_params = DefaultParams
  /\ drained = <<>>
  /\ shadow = DefaultParams
  /\ pushes_after_exit = -1
  /\ publishes_after_exit = -1

\* the state after CameraHandler(...) of the shipped source
Constructed(d, sc) == ConstructedFor(INPUT_BITS, d, sc)

Init == Constructed(NoDisk, DefaultScene)

---------------------------------------------------------------------------
(* The acquisition thread, _snap_update *)

\* snap_image, get_tagged_image and the conversions of the try block, up to the
\* append: the capture delivers frame nsnap + 1 ("ok"), fails inside the try
\* block ("fetch_fail", which enters the except block) or snap_image itself, which
\* is called before the try block, raises ("snap_raise").
\* The camera delivers at most maxSnaps frames.
SnapCapture(maxSnaps) ==
  /\ snap_pc = "snap"
  /\ \E outcome \in {"ok", "fetch_fail", "snap_raise"} :
       CASE outcome = "ok" ->
              /\ nsnap < maxSnaps
              /\ pixels' = nsnap + 1
              /\ nsnap' = nsnap + 1
              /\ snap_pc' = "append"
         [] outcome = "fetch_fail" ->
              /\ pixels' = 0
              /\ snap_pc' = "except"
              /\ UNCHANGED nsnap
         [] outcome = "snap_raise" ->
              /\ pixels' = 0
              /\ snap_pc' = "dead"
              /\ UNCHANGED nsnap
  /\ UNCHANGED <<img_queue, snap_thread_queue, scene, depth, guiVars, pushes_after_exit>>
  /\ UNCHANGED <<updVars, callerVars, parameters_queue, shadow>>

\* SnapExcept with an except block that withdraws the newest frame of the history
SnapExcept_DropNewest ==
  /\ snap_pc = "except"
  /\ img_queue' = IF Len(img_queue) > 0
                  THEN SubSeq(img_queue, 1, Len(img_queue) - 1) ELSE img_queue
  /\ snap_pc' = "poll"
  /\ UNCHANGED <<pixels, snap_thread_queue, scene, depth, guiVars, nsnap, pushes_after_exit>>
  /\ UNCHANGED <<update_thread_queue, upd_pc, params, result, nb_images, i, gate,
                 last_integrated_img, last_equalized_img, last_final_img,
                 cycle, cycle_params, drained, publishes_after_exit>>
  /\ UNCHANGED <<caller_pc, put_item, take_key, disk, stop_returned, parameters_queue, shadow>>

\* except Exception: print("Warning: ..."), then the sleep before the poll
SnapExcept ==
  /\ snap_pc = "except"
  /\ snap_pc' = "poll"
  /\ UNCHANGED <<img_queue, pixels, snap_thread_queue, scene, depth, guiVars, nsnap, pushes_after_exit>>
  /\ UNCHANGED <<updVars, callerVars, parameters_queue, shadow>>

\* self._img_queue.append(result)
SnapAppend ==
  /\ snap_pc = "append"
  /\ img_queue' = Append(img_queue, pixels)
  /\ pushes_after_exit' =
       IF pushes_after_exit >= 0 THEN Min(pushes_after_exit + 1, 2)
       ELSE pushes_after_exit
  /\ snap_pc' = "evict"
  /\ UNCHANGED <<pixels, snap_thread_queue, scene, depth, guiVars, nsnap>>
  /\ UNCHANGED <<updVars, callerVars, parameters_queue, shadow>>

\* SnapEvict with pop() in place of pop(0): the newest frame is evicted
SnapEvict_PopNewest ==
  /\ snap_pc = "evict"
  /\ img_queue' = IF Len(img_queue) = MAX_INTEGRATION_LEN + 1
                  THEN SubSeq(img_queue, 1, Len(img_queue) - 1) ELSE img_queue
  /\ pixels' = 0
  /\ snap_pc' = "poll"
  /\ UNCHANGED <<snap_thread_queue, scene, depth, guiVars, nsnap, pushes_after_exit>>
  /\ UNCHANGED <<update_thread_queue, upd_pc, params, result, nb_images, i, gate,
                 last_integrated_img, last_equalized_img, last_final_img,
                 cycle, cycle_params, drained, publishes_after_exit>>
  /\ UNCHANGED <<caller_pc, put_item, take_key, disk, stop_returned, parameters_queue, shadow>>

\* if len(self._img_queue) == self._MAX_INTEGRATION_LEN + 1: self._img_queue.pop(0)
SnapEvict ==
  /\ snap_pc = "evict"
  /\ img_queue' = IF Len(img_queue) = MAX_INTEGRATION_LEN + 1
                  THEN Tail(img_queue) ELSE img_queue
  /\ pixels' = 0
  /\ snap_pc' = "poll"
  /\ UNCHANGED <<snap_thread_queue, scene, depth, guiVars, nsnap, pushes_after_exit>>
  /\ UNCHANGED <<updVars, callerVars, parameters_queue, shadow>>

\* SnapPoll without the break: the command is taken and the loop goes on
SnapPoll_NoBreak ==
  /\ snap_pc = "poll"
  /\ snap_thread_queue' = IF Len(snap_thread_queue) > 0
                          THEN Tail(snap_thread_queue) ELSE snap_thread_queue
  /\ snap_pc' = "snap"
  /\ UNCHANGED <<img_queue, pixels, scene, depth, guiVars, nsnap, pushes_after_exit>>
  /\ UNCHANGED <<update_thread_queue, upd_pc, params, result, nb_images, i, gate,
                 last_integrated_img, last_equalized_img, last_final_img,
                 cycle, cycle_params, drained, publishes_after_exit>>
  /\ UNCHANGED <<caller_pc, put_item, take_key, disk, stop_returned, parameters_queue, shadow>>

\* if not control_queue.empty() and control_queue.get() == "Exit": break
SnapPoll ==
  /\ snap_pc = "poll"
  /\ IF Len(snap_thread_queue) > 0
     THEN /\ snap_thread_queue' = Tail(snap_thread_queue)
          /\ snap_pc' = IF Head(snap_thread_queue) = "Exit" THEN "done" ELSE "snap"
     ELSE /\ snap_pc' = "snap"
          /\ UNCHANGED snap_thread_queue
  /\ UNCHANGED <<img_queue, pixels, scene, depth, guiVars, nsnap, pushes_after_exit>>
  /\ UNCHANGED <<updVars, callerVars, parameters_queue, shadow>>

---------------------------------------------------------------------------
(* The processing thread, _update *)

\* the last MaxDrainLog elements of s
LastOf(s) == IF Len(s) <= MaxDrainLog THEN s
             ELSE SubSeq(s, Len(s) - MaxDrainLog + 1, Len(s))

\* (key, val) = param_queue.get(); params[key] = val
ApplyUpdate(p, item) == [p EXCEPT ![item[1]] = item[2]]

\* UpdDrain on a LifoQueue: get() returns the update enqueued last
UpdDrain_Lifo ==
  /\ upd_pc = "drain"
  /\ IF Len(parameters_queue) > 0
     THEN /\ params' = ApplyUpdate(params, parameters_queue[Len(parameters_queue)])
          /\ parameters_queue' = SubSeq(parameters_queue, 1, Len(parameters_queue) - 1)
          /\ drained' = LastOf(Append(drained, parameters_queue[Len(parameters_queue)]))
          /\ UNCHANGED <<upd_pc, cycle_params>>
     ELSE /\ upd_pc' = "read"
          /\ cycle_params' = params
          /\ drained' = <<>>
          /\ UNCHANGED <<params, parameters_queue>>
  /\ UNCHANGED <<update_thread_queue, result, nb_images, i, gate,
                 last_integrated_img, last_equalized_img, last_final_img,
                 cycle, publishes_after_exit>>
  /\ UNCHANGED <<snapVars, guiVars, callerVars, shadow>>

\* while not param_queue.empty(): (key, val) = param_queue.get(); params[key] = val
\* One step takes one update; the drain ends when the queue is seen empty.
UpdDrain ==
  /\ upd_pc = "drain"
  /\ IF Len(parameters_queue) > 0
     THEN /\ params' = ApplyUpdate(params, Head(parameters_queue))
          /\ parameters_queue' = Tail(parameters_queue)
          /\ drained' = LastOf(Append(drained, Head(parameters_queue)))
          /\ UNCHANGED <<upd_pc, cycle_params>>
     ELSE /\ upd_pc' = "read"
          /\ cycle_params' = params
          /\ drained' = <<>>
          /\ UNCHANGED <<params, parameters_queue>>
  /\ UNCHANGED <<update_thread_queue, result, nb_images, i, gate,
                 last_integrated_img, last_equalized_img, last_final_img,
                 cycle, publishes_after_exit>>
  /\ UNCHANGED <<snapVars, guiVars, callerVars, shadow>>

\* UpdRead that waits for a frame: with an empty history the thread stays where
\* it is
UpdRead_WaitFrame ==
  /\ upd_pc = "read"
  /\ Len(img_queue) > 0
  /\ cycle' = Min(cycle + 1, MaxCycles)
  /\ result' = RawImg(cycle', img_queue[Len(img_queue)])
  /\ upd_pc' = "integrate"
  /\ UNCHANGED <<update_thread_queue, params, nb_images, i, gate,
                 last_integrated_img, last_equalized_img, last_final_img,
                 cycle_params, drained, publishes_after_exit>>
  /\ UNCHANGED <<img_queue, pixels, snap_pc, snap_thread_queue, scene, depth, guiVars,
                 nsnap, pushes_after_exit>>
  /\ UNCHANGED <<caller_pc, put_item, take_key, disk, stop_returned, parameters_queue,
                 shadow>>

\* UpdRead with self._img_queue[0]: the cycle starts from the oldest frame
UpdRead_Oldest ==
  /\ upd_pc = "read"
  /\ IF Len(img_queue) > 0
     THEN /\ cycle' = Min(cycle + 1, MaxCycles)
          /\ result' = RawImg(cycle', img_queue[1])
          /\ upd_pc' = "integrate"
     ELSE /\ upd_pc' = "poll"
          /\ UNCHANGED <<cycle, result>>
  /\ UNCHANGED <<update_thread_queue, params, nb_images, i, gate,
                 last_integrated_img, last_equalized_img, last_final_img,
                 cycle_params, drained, publishes_after_exit>>
  /\ UNCHANGED <<img_queue, pixels, snap_pc, snap_thread_queue, scene, depth, guiVars, nsnap,
                 pushes_after_exit>>
  /\ UNCHANGED <<caller_pc, put_item, take_key, disk, stop_returned, parameters_queue, shadow>>

\* if len(self._img_queue) > 0: result = np.array(self._img_queue[-1])
UpdRead ==
  /\ upd_pc = "read"
  /\ IF Len(img_queue) > 0
     THEN /\ cycle' = Min(cycle + 1, MaxCycles)
          /\ result' = RawImg(cycle', img_queue[Len(img_queue)])
          /\ upd_pc' = "integrate"
     ELSE /\ upd_pc' = "poll"
          /\ UNCHANGED <<cycle, result>>
  /\ UNCHANGED <<update_thread_queue, params, nb_images, i, gate,
                 last_integrated_img, last_equalized_img, last_final_img,
                 cycle_params, drained, publishes_after_exit>>
  /\ UNCHANGED <<snapVars, guiVars, callerVars, parameters_queue, shadow>>

\* if params["integration"] is True:
\*   nb_images = min(int(params["integration_val"]), len(self._img_queue))
UpdIntegrate ==
  /\ upd_pc = "integrate"
  /\ IF params.integration = TRUE
     THEN /\ nb_images' = Min(params.integration_val, Len(img_queue))
          /\ i' = 0
          /\ upd_pc' = "blend"
     ELSE /\ upd_pc' = "subtract"
          /\ UNCHANGED <<nb_images, i>>
  /\ UNCHANGED <<update_thread_queue, params, result, gate,
                 last_integrated_img, last_equalized_img, last_final_img,
                 cycle, cycle_params, drained, publishes_after_exit>>
  /\ UNCHANGED <<snapVars, guiVars, callerVars, parameters_queue, shadow>>

\* UpdBlend reading self._img_queue[-i-2]: the window reaches one frame further
\* back
UpdBlend_OffByOne ==
  /\ upd_pc = "blend"
  /\ IF i < nb_images
     THEN IF i + 2 <= Len(img_queue)
          THEN /\ result' = [result EXCEPT
                              !.blend = Append(@, img_queue[Len(img_queue) - i - 1])]
               /\ i' = i + 1
               /\ UNCHANGED upd_pc
          ELSE /\ upd_pc' = "dead"
               /\ UNCHANGED <<result, i>>
     ELSE /\ upd_pc' = "subtract"
          /\ UNCHANGED <<result, i>>
  /\ UNCHANGED <<update_thread_queue, params, nb_images, gate,
                 last_integrated_img, last_equalized_img, last_final_img,
                 cycle, cycle_params, drained, publishes_after_exit>>
  /\ UNCHANGED <<img_queue, pixels, snap_pc, snap_thread_queue, scene, depth, guiVars,
                 nsnap, pushes_after_exit>>
  /\ UNCHANGED <<caller_pc, put_item, take_key, disk, stop_returned, parameters_queue,
                 shadow>>

\* for i in range(nb_images):
\*   result = cv2.addWeighted(result, i / nb_images, self._img_queue[-i-1], ...)
\* One step is one iteration; an index beyond the list raises IndexError, which
\* ends the thread.
UpdBlend ==
  /\ upd_pc = "blend"
  /\ IF i < nb_images
     THEN IF i + 1 <= Len(img_queue)
          THEN /\ result' = [result EXCEPT
                              !.blend = Append(@, img_queue[Len(img_queue) - i])]
               /\ i' = i + 1
               /\ UNCHANGED upd_pc
          ELSE /\ upd_pc' = "dead"
               /\ UNCHANGED <<result, i>>
     ELSE /\ upd_pc' = "subtract"
          /\ UNCHANGED <<result, i>>
  /\ UNCHANGED <<update_thread_queue, params, nb_images, gate,
                 last_integrated_img, last_equalized_img, last_final_img,
                 cycle, cycle_params, drained, publishes_after_exit>>
  /\ UNCHANGED <<snapVars, guiVars, callerVars, parameters_queue, shadow>>

\* CvSubtract as the subtraction of two arrays of the working type, a - d,
\* which wraps around
CvSubtract_Wrap(a, d) == (a - d) % BIT_DEPTH

\* cv2.subtract on the working type: saturate_cast of a - d
CvSubtract(a, d) == IF a > d THEN a - d ELSE 0

\* cv2.absdiff
CvAbsdiff(a, d) == IF a > d THEN a - d ELSE d - a

\* UpdSubtract that publishes the integrated image first and subtracts the dark
\* frame afterwards
UpdSubtract_PublishFirst ==
  /\ upd_pc = "subtract"
  /\ IF params.dark # NoneImg /\ params.subtract_dark = TRUE
     THEN IF params.dark.shape = result.shape
          THEN /\ result' = IF params.subtraction_mode = "True"
                            THEN [result EXCEPT
                                    !.sub = "absdiff",
                                    !.pix = CvAbsdiff(result.pix, params.dark.pix)]
                            ELSE [result EXCEPT
                                    !.sub = "subtract",
                                    !.pix = CvSubtract(result.pix, params.dark.pix)]
               /\ last_integrated_img' = result
               /\ upd_pc' = "gate"
          ELSE /\ upd_pc' = "dead"
               /\ UNCHANGED <<result, last_integrated_img>>
     ELSE /\ last_integrated_img' = result
          /\ upd_pc' = "gate"
          /\ UNCHANGED result
  /\ UNCHANGED <<update_thread_queue, params, nb_images, i, gate,
                 last_equalized_img, last_final_img,
                 cycle, cycle_params, drained, publishes_after_exit>>
  /\ UNCHANGED <<img_queue, pixels, snap_pc, snap_thread_queue, scene, depth, guiVars,
                 nsnap, pushes_after_exit>>
  /\ UNCHANGED <<caller_pc, put_item, take_key, disk, stop_returned, parameters_queue,
                 shadow>>

\* if params["dark"] is not None and params["subtract_dark"] is True: absdiff or
\* subtract; then self._last_integrated_img = np.array(result).  cv2 raises when
\* the two arrays differ in shape; nothing in _update catches it and the thread
\* ends.
UpdSubtract ==
  /\ upd_pc = "subtract"
  /\ IF params.dark # NoneImg /\ params.subtract_dark = TRUE
     THEN IF params.dark.shape = result.shape
          THEN /\ result' = IF params.subtraction_mode = "True"
                            THEN [result EXCEPT
                                    !.sub = "absdiff",
                                    !.pix = CvAbsdiff(result.pix, params.dark.pix)]
                            ELSE [result EXCEPT
                                    !.sub = "subtract",
                                    !.pix = CvSubtract(result.pix, params.dark.pix)]
               /\ last_integrated_img' = result'
               /\ upd_pc' = "gate"
          ELSE /\ upd_pc' = "dead"
               /\ UNCHANGED <<result, last_integrated_img>>
     ELSE /\ last_integrated_img' = result
          /\ upd_pc' = "gate"
          /\ UNCHANGED result
  /\ UNCHANGED <<update_thread_queue, params, nb_images, i, gate,
                 last_equalized_img, last_final_img,
                 cycle, cycle_params, drained, publishes_after_exit>>
  /\ UNCHANGED <<snapVars, guiVars, callerVars, parameters_queue, shadow>>

\* floor(d * (BIT_DEPTH - 1) / w) for 0 <= d < w < BIT_DEPTH, by parts that fit
\* 32 bits
ScaleToDepth(d, w) ==
  d * ((BIT_DEPTH - 1) \div w) + (d * ((BIT_DEPTH - 1) % w)) \div w

\* i - gate_low for a pixel of the working type: a Python int keeps the unsigned
\* type of the array, so the difference is taken modulo BIT_DEPTH; a float
\* promotes the array to float64
GateOffset(p, low) == IF low.float THEN p - low.num ELSE (p - low.num) % BIT_DEPTH

\* lut_func(i).astype(self._image_dtype) for one pixel:
\*   coef = (BIT_DEPTH - 1) / (gate_high - gate_low)
\*   np.maximum(0, np.minimum(BIT_DEPTH - 1, (i - gate_low) * coef))
\* and the cast, which truncates.  The set of values the build can produce:
\* with gate_high = gate_low coef is inf, and 0 * inf is a nan whose cast is
\* not defined.
lut_func(p, low, high) ==
  LET d == GateOffset(p, low)
      w == high.num - low.num
  IN  IF w > 0
      THEN IF d < 0 THEN {0}
           ELSE IF d >= w THEN {BIT_DEPTH - 1}
           ELSE {ScaleToDepth(d, w)}
      ELSE IF w = 0
      THEN IF d < 0 THEN {0}
           ELSE IF d > 0 THEN {BIT_DEPTH - 1}
           ELSE 0 .. (BIT_DEPTH - 1)
      ELSE IF d >= 0 THEN {0}
           ELSE IF 0 - d >= 0 - w THEN {BIT_DEPTH - 1}
           ELSE {ScaleToDepth(0 - d, 0 - w)}

\* UpdGate that first takes a pending update from the queue: the gate of a cycle
\* follows the queue, not the drained parameters
UpdGate_LiveParams ==
  /\ upd_pc = "gate"
  /\ params' = IF Len(parameters_queue) > 0
               THEN ApplyUpdate(params, Head(parameters_queue)) ELSE params
  /\ parameters_queue' = IF Len(parameters_queue) > 0
                         THEN Tail(parameters_queue) ELSE parameters_queue
  /\ gate' = <<params'.gate_low, params'.gate_high>>
  /\ \E v \in lut_func(result.pix, gate'[1], gate'[2]) :
       result' = [result EXCEPT !.gate = gate', !.pix = v]
  /\ last_equalized_img' = result'
  /\ upd_pc' = "overlay"
  /\ UNCHANGED <<update_thread_queue, nb_images, i,
                 last_integrated_img, last_final_img,
                 cycle, cycle_params, drained, publishes_after_exit>>
  /\ UNCHANGED <<snapVars, guiVars, callerVars, shadow>>

\* (gate_low, gate_high) = params["gate_low"], params["gate_high"]
\* result = lut_func(result).astype(self._image_dtype)
\* self._last_equalized_img = np.array(result)
UpdGate ==
  /\ upd_pc = "gate"
  /\ gate' = <<params.gate_low, params.gate_high>>
  /\ \E v \in lut_func(result.pix, gate'[1], gate'[2]) :
       result' = [result EXCEPT !.gate = gate', !.pix = v]
  /\ last_equalized_img' = result'
  /\ upd_pc' = "overlay"
  /\ UNCHANGED <<update_thread_queue, params, nb_images, i,
                 last_integrated_img, last_final_img,
                 cycle, cycle_params, drained, publishes_after_exit>>
  /\ UNCHANGED <<snapVars, guiVars, callerVars, parameters_queue, shadow>>

\* UpdOverlay that composites whenever a static image is set, whatever
\* overlay_static
UpdOverlay_IgnoreFlag ==
  /\ upd_pc = "overlay"
  /\ IF params.static # NoneImg
     THEN IF params.static.shape = result.shape
          THEN /\ result' = [result EXCEPT !.overlay = params.overlay_opacity,
                                           !.shape = "bgr"]
               /\ last_final_img' = result'
               /\ upd_pc' = "poll"
          ELSE /\ upd_pc' = "dead"
               /\ UNCHANGED <<result, last_final_img>>
     ELSE /\ last_final_img' = result
          /\ upd_pc' = "poll"
          /\ UNCHANGED result
  /\ publishes_after_exit' =
       IF publishes_after_exit >= 0 /\ upd_pc' = "poll"
       THEN Min(publishes_after_exit + 1, 2)
       ELSE publishes_after_exit
  /\ UNCHANGED <<update_thread_queue, params, nb_images, i, gate,
                 last_integrated_img, last_equalized_img,
                 cycle, cycle_params, drained>>
  /\ UNCHANGED <<img_queue, pixels, snap_pc, snap_thread_queue, scene, depth, guiVars, nsnap,
                 pushes_after_exit>>
  /\ UNCHANGED <<caller_pc, put_item, take_key, disk, stop_returned, parameters_queue, shadow>>

\* if params["static"] is not None and params["overlay_static"] is True:
\*   result = cv2.merge((result * 0, result * 0, result)); cvtColor of the static
\*   image; cv2.addWeighted with the opacity
\* then self._last_final_img = result; imshow; waitKey.  The composite has three
\* channels (shape "bgr"); pix follows the red channel before the blend.
\* addWeighted raises when the two arrays differ in shape, which ends the thread.
UpdOverlay ==
  /\ upd_pc = "overlay"
  /\ IF params.static # NoneImg /\ params.overlay_static = TRUE
     THEN IF params.static.shape = result.shape
          THEN /\ result' = [result EXCEPT !.overlay = params.overlay_opacity,
                                           !.shape = "bgr"]
               /\ last_final_img' = result'
               /\ upd_pc' = "poll"
          ELSE /\ upd_pc' = "dead"
               /\ UNCHANGED <<result, last_final_img>>
     ELSE /\ last_final_img' = result
          /\ upd_pc' = "poll"
          /\ UNCHANGED result
  /\ publishes_after_exit' =
       IF publishes_after_exit >= 0 /\ upd_pc' = "poll"
       THEN Min(publishes_after_exit + 1, 2)
       ELSE publishes_after_exit
  /\ UNCHANGED <<update_thread_queue, params, nb_images, i, gate,
                 last_integrated_img, last_equalized_img,
                 cycle, cycle_params, drained>>
  /\ UNCHANGED <<snapVars, guiVars, callerVars, parameters_queue, shadow>>

\* UpdPoll without the break: the command is taken and the loop goes on
UpdPoll_NoBreak ==
  /\ upd_pc = "poll"
  /\ update_thread_queue' = IF Len(update_thread_queue) > 0
                            THEN Tail(update_thread_queue) ELSE update_thread_queue
  /\ upd_pc' = "drain"
  /\ UNCHANGED <<params, result, nb_images, i, gate,
                 last_integrated_img, last_equalized_img, last_final_img,
                 cycle, cycle_params, drained, publishes_after_exit>>
  /\ UNCHANGED <<snapVars, guiVars, callerVars, parameters_queue, shadow>>

\* if not control_queue.empty() and control_queue.get() == "Exit": break
\* and, after the loop, cv2.destroyWindow
UpdPoll ==
  /\ upd_pc = "poll"
  /\ IF Len(update_thread_queue) > 0
     THEN /\ update_thread_queue' = Tail(update_thread_queue)
          /\ upd_pc' = IF Head(update_thread_queue) = "Exit" THEN "done" ELSE "drain"
     ELSE /\ upd_pc' = "drain"
          /\ UNCHANGED update_thread_queue
  /\ UNCHANGED <<params, result, nb_images, i, gate,
                 last_integrated_img, last_equalized_img, last_final_img,
                 cycle, cycle_params, drained, publishes_after_exit>>
  /\ UNCHANGED <<snapVars, guiVars, callerVars, parameters_queue, shadow>>

---------------------------------------------------------------------------
(* The caller of the public methods *)

\* Start with threads that can be started again: each thread that is not alive is
\* started, whether it has run before or not
Start_Restart ==
  /\ caller_pc = "idle"
  /\ upd_pc' = IF ~IsAlive(upd_pc) THEN "drain" ELSE upd_pc
  /\ params' = IF ~IsAlive(upd_pc) THEN LoadedParams(disk) ELSE params
  /\ cycle_params' = IF ~IsAlive(upd_pc) THEN LoadedParams(disk) ELSE cycle_params
  /\ shadow' = IF ~IsAlive(upd_pc)
               THEN [shadow EXCEPT !.dark = disk.dark, !.static = disk.static]
               ELSE shadow
  /\ snap_pc' = IF ~IsAlive(snap_pc) THEN "snap" ELSE snap_pc
  /\ UNCHANGED <<img_queue, pixels, snap_thread_queue, scene, depth, guiVars, nsnap,
                 pushes_after_exit>>
  /\ UNCHANGED <<update_thread_queue, result, nb_images, i, gate,
                 last_integrated_img, last_equalized_img, last_final_img,
                 cycle, drained, publishes_after_exit>>
  /\ UNCHANGED <<caller_pc, put_item, take_key, disk, stop_returned, parameters_queue>>

\* start(): each thread is started unless it is alive.  Thread.start() of a thread
\* that has ended raises RuntimeError and start() does nothing more.  The step
\* takes the processing thread to its loop: params is built and the two imread
\* calls load the files of images/, which no other step can write before the
\* first result is published.
Start ==
  /\ caller_pc = "idle"
  /\ upd_pc' = IF upd_pc = "unstarted" THEN "drain" ELSE upd_pc
  /\ params' = IF upd_pc = "unstarted" THEN LoadedParams(disk) ELSE params
  /\ cycle_params' = IF upd_pc = "unstarted" THEN LoadedParams(disk) ELSE cycle_params
  /\ shadow' = IF upd_pc = "unstarted"
               THEN [shadow EXCEPT !.dark = disk.dark, !.static = disk.static]
               ELSE shadow
  /\ snap_pc' = IF snap_pc = "unstarted" /\ upd_pc \notin {"done", "dead"}
                THEN "snap" ELSE snap_pc
  /\ UNCHANGED <<img_queue, pixels, snap_thread_queue, scene, depth, guiVars, nsnap, pushes_after_exit>>
  /\ UNCHANGED <<update_thread_queue, result, nb_images, i, gate,
                 last_integrated_img, last_equalized_img, last_final_img,
                 cycle, drained, publishes_after_exit>>
  /\ UNCHANGED <<callerVars, parameters_queue>>

\* update_param(key, val): self._parameters_queue.put((key, val)).  put blocks
\* while the queue holds maxsize items.
UpdateParam(item) ==
  /\ caller_pc = "idle"
  /\ IF Len(parameters_queue) < QUEUE_MAXSIZE
     THEN /\ parameters_queue' = Append(parameters_queue, item)
          /\ shadow' = ApplyUpdate(shadow, item)
          /\ UNCHANGED <<caller_pc, put_item>>
     ELSE /\ caller_pc' = "put_blocked"
          /\ put_item' = item
          /\ UNCHANGED <<parameters_queue, shadow>>
  /\ UNCHANGED <<snapVars, guiVars, updVars, take_key, disk, stop_returned>>

\* the blocked put of update_param goes on when the queue has a free slot
PutUnblock ==
  /\ caller_pc = "put_blocked"
  /\ Len(parameters_queue) < QUEUE_MAXSIZE
  /\ parameters_queue' = Append(parameters_queue, put_item)
  /\ shadow' = ApplyUpdate(shadow, put_item)
  /\ caller_pc' = "idle"
  /\ put_item' = <<>>
  /\ UNCHANGED <<snapVars, guiVars, updVars, take_key, disk, stop_returned>>

\* AutoGuiButton._update: getattr(self._cam_handler, self._function)() with
\* take_dark_img (key "dark") or take_static_img (key "static")
TakeImgCall(key) ==
  /\ caller_pc = "idle"
  /\ caller_pc' = "take_check"
  /\ take_key' = key
  /\ UNCHANGED <<snapVars, guiVars, updVars, put_item, disk, stop_returned, parameters_queue, shadow>>

\* TakeImgCheck without the test of line 228 / 235
TakeImgCheck_NoTest ==
  /\ caller_pc = "take_check"
  /\ caller_pc' = "take_put"
  /\ UNCHANGED take_key
  /\ UNCHANGED <<snapVars, guiVars, updVars, put_item, disk, stop_returned, parameters_queue, shadow>>

\* if self.get_last_equalized_img() is None: print("Warning: ...") and return
TakeImgCheck ==
  /\ caller_pc = "take_check"
  /\ IF get_last_equalized_img = NoneImg
     THEN /\ caller_pc' = "idle"
          /\ take_key' = "none"
     ELSE /\ caller_pc' = "take_put"
          /\ UNCHANGED take_key
  /\ UNCHANGED <<snapVars, guiVars, updVars, put_item, disk, stop_returned, parameters_queue, shadow>>

\* self.update_param("dark", self.get_last_equalized_img()): a second read of the
\* published image; put waits for a free slot
TakeImgPut ==
  /\ caller_pc = "take_put"
  /\ Len(parameters_queue) < QUEUE_MAXSIZE
  /\ parameters_queue' = Append(parameters_queue, <<take_key, get_last_equalized_img>>)
  /\ shadow' = ApplyUpdate(shadow, <<take_key, get_last_equalized_img>>)
  /\ caller_pc' = "take_write"
  /\ UNCHANGED <<snapVars, guiVars, updVars, put_item, take_key, disk, stop_returned>>

\* cv2.imwrite('images/dark.png', self.get_last_equalized_img()): a third read
TakeImgWrite ==
  /\ caller_pc = "take_write"
  /\ disk' = [disk EXCEPT ![take_key] = get_last_equalized_img]
  /\ caller_pc' = "idle"
  /\ take_key' = "none"
  /\ UNCHANGED <<snapVars, guiVars, updVars, put_item, parameters_queue, shadow,
                 stop_returned>>

\* stop(), second half: if self._snap_thread.is_alive(): put("Exit"); join()
StopSnapThread ==
  IF IsAlive(snap_pc)
  THEN /\ Len(snap_thread_queue) < QUEUE_MAXSIZE
       /\ snap_thread_queue' = Append(snap_thread_queue, "Exit")
       /\ pushes_after_exit' = 0
       /\ caller_pc' = "join_snap"
  ELSE /\ caller_pc' = "idle"
       /\ UNCHANGED <<snap_thread_queue, pushes_after_exit>>

\* StopBegin without the join: the acquisition thread is told to stop right
\* after the processing thread
StopBegin_NoJoin ==
  /\ caller_pc = "idle"
  /\ IF IsAlive(upd_pc)
     THEN /\ Len(update_thread_queue) < QUEUE_MAXSIZE
          /\ update_thread_queue' = Append(update_thread_queue, "Exit")
          /\ publishes_after_exit' = 0
     ELSE UNCHANGED <<update_thread_queue, publishes_after_exit>>
  /\ StopSnapThread
  /\ UNCHANGED <<img_queue, pixels, snap_pc, scene, depth, guiVars, nsnap>>
  /\ UNCHANGED <<upd_pc, params, result, nb_images, i, gate,
                 last_integrated_img, last_equalized_img, last_final_img,
                 cycle, cycle_params, drained>>
  /\ UNCHANGED <<put_item, take_key, disk, parameters_queue, shadow>>

\* stop(), first half: if self._update_thread.is_alive(): put("Exit"); join()
StopBegin ==
  /\ caller_pc = "idle"
  /\ IF IsAlive(upd_pc)
     THEN /\ Len(update_thread_queue) < QUEUE_MAXSIZE
          /\ update_thread_queue' = Append(update_thread_queue, "Exit")
          /\ publishes_after_exit' = 0
          /\ caller_pc' = "join_update"
          /\ UNCHANGED <<snap_thread_queue, pushes_after_exit>>
     ELSE /\ StopSnapThread
          /\ UNCHANGED <<update_thread_queue, publishes_after_exit>>
  /\ UNCHANGED <<img_queue, pixels, snap_pc, scene, depth, guiVars, nsnap>>
  /\ UNCHANGED <<upd_pc, params, result, nb_images, i, gate,
                 last_integrated_img, last_equalized_img, last_final_img,
                 cycle, cycle_params, drained>>
  /\ UNCHANGED <<put_item, take_key, disk, parameters_queue, shadow>>

\* self._update_thread.join() returns once the processing thread has ended; stop()
\* goes on with the acquisition thread
StopJoinUpdate ==
  /\ caller_pc = "join_update"
  /\ ~IsAlive(upd_pc)
  /\ StopSnapThread
  /\ UNCHANGED <<img_queue, pixels, snap_pc, scene, depth, guiVars, nsnap>>
  /\ UNCHANGED <<updVars, put_item, take_key, disk, parameters_queue, shadow>>

\* self._snap_thread.join() returns once the acquisition thread has ended
StopJoinSnap ==
  /\ caller_pc = "join_snap"
  /\ ~IsAlive(snap_pc)
  /\ caller_pc' = "idle"
  /\ UNCHANGED <<snapVars, guiVars, updVars, put_item, take_key, disk, parameters_queue,
                 shadow>>

---------------------------------------------------------------------------
(* Specifications *)

SnapThread(maxSnaps) ==
  SnapCapture(maxSnaps) \/ SnapExcept \/ SnapAppend \/ SnapEvict \/ SnapPoll

UpdateThread ==
  \/ UpdDrain \/ UpdRead \/ UpdIntegrate \/ UpdBlend
  \/ UpdSubtract \/ UpdGate \/ UpdOverlay \/ UpdPoll

\* stop(), step by step.  The steps leave the history variable stop_returned to
\* the two definitions below.
StopSteps == StopBegin \/ StopJoinUpdate \/ StopJoinSnap

\* stop() in the specifications that keep no record of its return
Stop == StopSteps /\ UNCHANGED stop_returned

\* stop() in the specifications that record its return: the call has returned
\* when the caller is back at "idle"
StopLogged == StopSteps /\ stop_returned' = (stop_returned \/ caller_pc' = "idle")

\* update_param called with one of the given updates, by a caller that leaves
\* fewer than maxPending updates pending
CallUpdateParam(updates, maxPending) ==
  /\ Len(parameters_queue) < maxPending
  /\ \E item \in updates : UpdateParam(item)

\* Both threads and a caller of start, stop and update_param, a camera that
\* delivers MaxSnaps frames
Next ==
  \/ Start
  \/ Stop
  \/ CallUpdateParam(ParamUpdates, MaxPending)
  \/ SnapThread(MaxSnaps)
  \/ UpdateThread

Spec == Init /\ [][Next]_vars

\* The acquisition thread alone (the processing thread is not scheduled), a camera
\* that delivers MaxRingSnaps frames: more than the history holds
NextRing ==
  \/ Start
  \/ SnapThread(MaxRingSnaps)

SpecRing == Init /\ [][NextRing]_vars

\* The caller and the drain of the processing thread (the acquisition thread is
\* not scheduled, so the history stays empty)
NextParams ==
  \/ Start
  \/ CallUpdateParam(DrainUpdates, MaxPendingDrain)
  \/ UpdDrain
  \/ UpdRead
  \/ UpdPoll

SpecParams == Init /\ [][NextParams]_vars

\* As NextParams, with a caller that never waits for the processing thread
NextSat ==
  \/ Start
  \/ CallUpdateParam(SatUpdates, QUEUE_MAXSIZE + 1)
  \/ PutUnblock
  \/ UpdDrain
  \/ UpdRead
  \/ UpdPoll

SpecSat == Init /\ [][NextSat]_vars

\* Both threads and a caller of start, stop and update_param, a camera that
\* delivers MaxSnapsLive frames and a caller that sends the update of LiveUpdates
NextLive ==
  \/ Start
  \/ Stop
  \/ CallUpdateParam(LiveUpdates, MaxPending)
  \/ SnapThread(MaxSnapsLive)
  \/ UpdateThread

\* every thread is scheduled fairly, every capture call returns and the caller
\* goes on with stop() once the thread it joins has ended
SpecLive ==
  /\ Init
  /\ [][NextLive]_vars
  /\ WF_vars(SnapThread(MaxSnapsLive))
  /\ WF_vars(UpdateThread)
  /\ WF_vars(Stop)

\* the state after start() and k captures, before the processing thread has run:
\* the history holds the last frames of 1 .. k
Grabbed(k) ==
  /\ img_queue = LastFrames(k, Min(k, MAX_INTEGRATION_LEN))
  /\ pixels = 0
  /\ snap_pc = "poll"
  /\ snap_thread_queue = <<>>
  /\ update_thread_queue = <<>>
  /\ parameters_queue = <<>>
  /\ upd_pc = "drain"
  /\ params = LoadedParams(NoDisk)
  /\ result = NoneImg
  /\ nb_images = 0
  /\ i = 0
  /\ gate = <<DefaultParams.gate_low, DefaultParams.gate_high>>
  /\ last_integrated_img = NoneImg
  /\ last_equalized_img = NoneImg
  /\ last_final_img = NoneImg
  /\ caller_pc = "idle"
  /\ put_item = <<>>
  /\ take_key = "none"
  /\ disk = NoDisk
  /\ scene = DefaultScene
  /\ depth = SelectDepth(INPUT_BITS)
  /\ gui_pc = "init"
  /\ plot_pc = "unstarted"
  /\ pause_render = FALSE
  /\ running = TRUE
  /\ thread_stop_queue = <<>>
  /\ stop_returned = FALSE
  /\ nsnap = k
  /\ cycle = 0
  /\ cycle_params = LoadedParams(NoDisk)
  /\ drained = <<>>
  /\ shadow = LoadedParams(NoDisk)
  /\ pushes_after_exit = -1
  /\ publishes_after_exit = -1

\* the updates of specification SpecHist: the check button and the scale of the
\* integration
HistUpdates ==
  { <<"integration", TRUE>>, <<"integration", FALSE>>, <<"integration_val", 3>> }

InitHist == \E k \in 1..MaxRingSnaps : Grabbed(k)

\* The processing thread and a caller of update_param on a history of every
\* length (the acquisition thread is not scheduled any more)
NextHist ==
  \/ CallUpdateParam(HistUpdates, MaxPending)
  \/ UpdateThread

SpecHist == InitHist /\ [][NextHist]_vars

\* the processing thread of a caller that never enables integration
UpdateThreadNoBlend ==
  \/ UpdDrain \/ UpdRead \/ UpdIntegrate
  \/ UpdSubtract \/ UpdGate \/ UpdOverlay \/ UpdPoll

\* the pixel value of the scene in specification SpecDark
DarkScene == 5

\* images/dark.png in specification SpecDark: absent, brighter than the scene,
\* darker than the scene, of another shape than the frames
DarkDisks ==
  { [dark |-> d, static |-> NoneImg] :
      d \in { NoneImg, StoredImg(FramePixel(10), "frame"),
              StoredImg(FramePixel(1), "frame"), StoredImg(FramePixel(10), "other") } }

\* the updates of specification SpecDark: the two check buttons of the dark frame
DarkUpdates ==
  { <<"subtract_dark", TRUE>>, <<"subtraction_mode", "True">>,
    <<"subtraction_mode", "False">> }

InitDark == \E d \in DarkDisks : Constructed(d, DarkScene)

\* Both threads and a caller of update_param, with a dark frame on disk
NextDark ==
  \/ Start
  \/ CallUpdateParam(DarkUpdates, MaxPending)
  \/ SnapThread(MaxSnapsLive)
  \/ UpdateThreadNoBlend

SpecDark == InitDark /\ [][NextDark]_vars

\* the pixel values of the scene in specification SpecGate: black, and the value
\* of the 8-bit scenario
GateScenes == {0, 125}

\* the updates of specification SpecGate: the two scales of the gate
GateUpdates == { <<"gate_low", PyFloat(50)>>, <<"gate_high", PyFloat(200)>> }

InitGate == \E sc \in GateScenes : Constructed(NoDisk, sc)

\* Both threads and a caller that moves the gate
NextGate ==
  \/ Start
  \/ CallUpdateParam(GateUpdates, MaxPending)
  \/ SnapThread(MaxSnapsLive)
  \/ UpdateThreadNoBlend

SpecGate == InitGate /\ [][NextGate]_vars

\* take_dark_img and take_static_img
TakeKeys == {"dark", "static"}

\* one of the two buttons is pressed by a caller that leaves fewer than
\* maxPending updates pending
CallTakeImg(maxPending) ==
  /\ Len(parameters_queue) < maxPending
  /\ \E key \in TakeKeys : TakeImgCall(key)

\* Both threads and a caller of take_dark_img and take_static_img
NextTake ==
  \/ Start
  \/ CallTakeImg(MaxPending)
  \/ TakeImgCheck
  \/ TakeImgPut
  \/ TakeImgWrite
  \/ SnapThread(MaxSnapsLive)
  \/ UpdateThreadNoBlend

SpecTake == Init /\ [][NextTake]_vars

\* images/static.png in specification SpecOverlay: absent, of the shape of the
\* frames, of another shape
OverlayDisks ==
  { [dark |-> NoneImg, static |-> st] :
      st \in { NoneImg, StoredImg(FramePixel(10), "frame"),
               StoredImg(FramePixel(10), "other") } }

\* the updates of specification SpecOverlay: the check button and the scale of
\* the overlay
OverlayUpdates ==
  { <<"overlay_static", TRUE>>, <<"overlay_static", FALSE>>, <<"overlay_opacity", 30>> }

InitOverlay == \E d \in OverlayDisks : Constructed(d, DefaultScene)

\* Both threads and a caller of update_param, with a static image on disk
NextOverlay ==
  \/ Start
  \/ CallUpdateParam(OverlayUpdates, MaxPending)
  \/ SnapThread(MaxSnapsLive)
  \/ UpdateThreadNoBlend

SpecOverlay == InitOverlay /\ [][NextOverlay]_vars

---------------------------------------------------------------------------
(* The frame history *)

\* frames pushed so far: the captured frame of a cycle is pushed by SnapAppend
Pushed == IF snap_pc = "append" THEN nsnap - 1 ELSE nsnap

\* C1: in every reachable state, also between two steps of the acquisition
\* thread, the frame history holds at most MAX_INTEGRATION_LEN frames.
C1_HistoryBounded == Len(img_queue) <= MAX_INTEGRATION_LEN

\* C2: after k pushes the frame history is the last min(k, capacity) frames in
\* arrival order, and get_last_img returns the frame pushed last (None, written
\* 0, only when nothing was pushed).
C2_HistoryIsLastFrames ==
  /\ snap_pc # "evict" =>
       img_queue = LastFrames(Pushed, Min(Pushed, MAX_INTEGRATION_LEN))
  /\ get_last_img = Pushed

\* C2: the history has overflowed twice and the cycle is complete
C2_Witness ==
  /\ snap_pc = "poll"
  /\ nsnap = MAX_INTEGRATION_LEN + 2
  /\ Len(img_queue) = MAX_INTEGRATION_LEN
  /\ Head(img_queue) = 3

---------------------------------------------------------------------------
(* The parameter channel *)

\* C3: update_param never blocks its caller; with 32 updates pending the call
\* returns at once and the update is dropped.
C3_UpdateParamNeverBlocks == caller_pc # "put_blocked"

\* the greatest element of a non-empty set of numbers
MaxOf(S) == CHOOSE x \in S : \A y \in S : y <= x

\* the places of the drain log that hold an update of key k
LoggedFor(k) == {j \in 1..Len(drained) : drained[j][1] = k}

\* key k has an update pending in the parameter queue
Pending(k) == \E j \in 1..Len(parameters_queue) : parameters_queue[j][1] = k

\* C4: the drain applies the queued updates in enqueue order: a key updated in the
\* running drain holds the value of its last applied update, a key with no update
\* in the drain keeps the value it had when the previous drain ended, and a key
\* with no update pending holds the value last enqueued for it.
C4_DrainLastWriteWins ==
  \A k \in DOMAIN params :
    /\ LoggedFor(k) # {} => params[k] = drained[MaxOf(LoggedFor(k))][2]
    /\ (upd_pc = "drain" /\ LoggedFor(k) = {} /\ Len(drained) < MaxDrainLog)
         => params[k] = cycle_params[k]
    /\ ~Pending(k) => params[k] = shadow[k]

\* C4: a drain about to end that applied two updates of gate_low and none of
\* gate_high
C4_Witness ==
  /\ upd_pc = "drain"
  /\ Len(parameters_queue) = 0
  /\ drained = << <<"gate_low", PyFloat(2)>>, <<"gate_low", PyFloat(1)>> >>
  /\ params.gate_low = PyFloat(1)
  /\ params.gate_high = PyInt(BIT_DEPTH - 1)

\* C5: the gating step of every cycle runs with gate_low < gate_high (a gate with
\* gate_low >= gate_high is corrected to gate_high = gate_low + 1 by the drain).
C5_GateOrdered == upd_pc = "gate" => params.gate_low.num < params.gate_high.num

---------------------------------------------------------------------------
(* The processing cycle *)

InCycle == upd_pc \in {"read", "integrate", "blend", "subtract", "gate", "overlay", "poll"}

\* C6: every step of a cycle uses the parameters fixed when the drain of the cycle
\* ended: between the drain and the poll params is that snapshot, the frames are
\* blended when the snapshot enables integration and the equalized image is
\* gated by the snapshot's gate, whatever is enqueued meanwhile.
C6_OneSnapshotPerCycle ==
  /\ InCycle => params = cycle_params
  /\ upd_pc \in {"subtract", "gate", "overlay"} =>
       (Len(result.blend) > 0 <=> cycle_params.integration = TRUE)
  /\ upd_pc = "overlay" =>
       /\ result.gate = <<cycle_params.gate_low, cycle_params.gate_high>>
       /\ last_equalized_img = result

\* C6: an update of gate_low is enqueued while the cycle has gated with the old
\* value
C6_Witness ==
  /\ upd_pc = "overlay"
  /\ parameters_queue = << <<"gate_low", PyFloat(2)>> >>
  /\ result.gate[1] = PyInt(1)
  /\ last_equalized_img.gate[1] = PyInt(1)

\* C7: at every instant the three getters return images of one completed cycle
\* (cycle 0: no image yet).
C7_PublishedFromOneCycle ==
  /\ get_last_integrated_img.cycle = get_last_equalized_img.cycle
  /\ get_last_equalized_img.cycle = get_last_final_img.cycle

---------------------------------------------------------------------------
(* Shutdown *)

InStop == caller_pc \in {"join_update", "join_snap"}

\* C9: under fair scheduling, with capture calls that return, a call of stop()
\* returns and both loops have ended.
C9_StopReturns ==
  InStop ~> (caller_pc = "idle" /\ ~IsAlive(upd_pc) /\ ~IsAlive(snap_pc))

\* C9: stop() has returned after both loops ran and took their Exit command
C9_Witness ==
  /\ caller_pc = "idle"
  /\ upd_pc = "done"
  /\ snap_pc = "done"
  /\ Len(img_queue) > 0
  /\ Len(parameters_queue) > 0

\* C10: a loop exits only from its poll, so never between a capture and the push
\* of the frame; once Exit is put the acquisition loop pushes at most one more
\* frame and the processing loop publishes at most one more result.
C10_ExitAtCycleBoundary ==
  /\ [](pushes_after_exit <= 1 /\ publishes_after_exit <= 1)
  /\ [][(snap_pc' = "done" => snap_pc \in {"poll", "done"})
        /\ (upd_pc' = "done" => upd_pc \in {"poll", "done"})
        /\ (snap_pc = "append" => snap_pc' \in {"append", "evict"})
        /\ (snap_pc = "evict" => snap_pc' \in {"evict", "poll"})]_vars

\* C10: both loops have exited, each after one more push / publication
C10_Witness ==
  /\ snap_pc = "done"
  /\ upd_pc = "done"
  /\ pushes_after_exit = 1
  /\ publishes_after_exit = 1

---------------------------------------------------------------------------
(* Errors of the acquisition cycle *)

\* C11: no error raised during an acquisition cycle, by snap_image or by the fetch
\* and the conversions, ends the acquisition loop.
C11_AcquisitionLoopSurvives == snap_pc # "dead"

\* C12: a cycle whose fetch fails leaves the frame history as it was (nothing
\* appended, nothing evicted, same order) up to the poll of that cycle, and every
\* push, also after failed cycles, appends the frame just captured.
C12_FailedFetchKeepsHistory ==
  [][/\ (snap_pc = "snap" /\ snap_pc' = "except") => img_queue' = img_queue
     /\ snap_pc = "except" => (img_queue' = img_queue /\ snap_pc' \in {"except", "poll"})
     /\ (snap_pc = "append" /\ snap_pc' = "evict") =>
          (img_queue' = Append(img_queue, nsnap) /\ get_last_img' = nsnap)]_vars

\* C12: a fetch has failed after the history overflowed; the history holds the
\* last MAX_INTEGRATION_LEN frames
C12_Witness ==
  /\ snap_pc = "except"
  /\ nsnap = MAX_INTEGRATION_LEN + 1
  /\ Len(img_queue) = MAX_INTEGRATION_LEN
  /\ Head(img_queue) = 2
  /\ get_last_img = nsnap

---------------------------------------------------------------------------
(* Dark subtraction *)

\* C13: a dark or static reference of another shape than the live frame, once
\* set and enabled, does not end the processing loop.
C13_ProcessingLoopSurvives == upd_pc # "dead"

Abs(x) == IF x >= 0 THEN x ELSE 0 - x

Max(a, b) == IF a > b THEN a ELSE b

\* C16: the integrated image a cycle publishes holds a - d changed by the mode
\* of the cycle's parameters, |a - d| for AbsDiff (subtraction_mode True) and
\* max(a - d, 0) for Subtract, when subtract_dark is true and a dark frame is
\* set, and the pixel a itself otherwise (a: value of the frame, d: of the dark
\* frame).
C16_DarkSubtraction ==
  upd_pc = "gate" =>
    LET a == FramePixel(scene)
        d == cycle_params.dark.pix
    IN  IF cycle_params.dark # NoneImg /\ cycle_params.subtract_dark = TRUE
        THEN IF cycle_params.subtraction_mode = "True"
             THEN /\ last_integrated_img.pix = Abs(a - d)
                  /\ last_integrated_img.sub = "absdiff"
             ELSE /\ last_integrated_img.pix = Max(a - d, 0)
                  /\ last_integrated_img.sub = "subtract"
        ELSE /\ last_integrated_img.pix = a
             /\ last_integrated_img.sub = "none"

\* C16: with a = 5 and d = 10 (in units of the input depth) a cycle in AbsDiff
\* mode has published 5, after a cycle in Subtract mode that published 0
C16_Witness ==
  /\ upd_pc = "gate"
  /\ cycle_params.dark.pix = FramePixel(10)
  /\ cycle_params.subtraction_mode = "True"
  /\ last_integrated_img.sub = "absdiff"
  /\ last_integrated_img.pix = FramePixel(5)
  /\ last_final_img.sub = "subtract"
  /\ last_final_img.cycle > 0

---------------------------------------------------------------------------
(* Results of a cycle *)

\* C14: before the first processing cycle the three result getters return None.
C14_NullBeforeFirstCycle ==
  cycle = 0 =>
    /\ get_last_integrated_img = NoneImg
    /\ get_last_equalized_img = NoneImg
    /\ get_last_final_img = NoneImg

\* C15: a cycle reads the newest frame of the history, and while the cycle's
\* parameters disable integration and dark subtraction the integrated image it
\* publishes is that frame unchanged, whatever the length of the history.
C15_IntegrationOffIsNewest ==
  /\ [][(upd_pc = "read" /\ upd_pc' = "integrate") =>
          (get_last_img # 0 /\ result' = RawImg(cycle', get_last_img))]_vars
  /\ []((/\ upd_pc = "gate"
         /\ cycle_params.integration = FALSE
         /\ ~(cycle_params.dark # NoneImg /\ cycle_params.subtract_dark = TRUE))
        => /\ last_integrated_img = RawImg(cycle, result.newest)
           /\ result.newest \in {img_queue[j] : j \in 1..Len(img_queue)})

\* C15: on a full history that has evicted two frames, a cycle with integration
\* disabled has published the newest frame, after a cycle that blended
C15_Witness ==
  /\ upd_pc = "gate"
  /\ cycle_params.integration = FALSE
  /\ nsnap = MAX_INTEGRATION_LEN + 2
  /\ Len(img_queue) = MAX_INTEGRATION_LEN
  /\ last_integrated_img = RawImg(cycle, nsnap)
  /\ Len(last_final_img.blend) = 3

---------------------------------------------------------------------------
(* The contrast gate *)

\* the value lut_func and the cast give pixel x when there is one value only
LutValue(x, low, high) == CHOOSE v \in lut_func(x, low, high) : TRUE

\* C17: for a gate 0 <= gate_low < gate_high <= BIT_DEPTH - 1 the LUT the gating
\* step applies, cast included, is 0 below gate_low, BIT_DEPTH - 1 from gate_high
\* on, non-decreasing over 0 .. BIT_DEPTH - 1 and strictly increasing on
\* gate_low .. gate_high - 1.
C17_LutShape ==
  LET low == params.gate_low
      high == params.gate_high
  IN  (upd_pc = "gate" /\ 0 <= low.num /\ low.num < high.num
         /\ high.num <= BIT_DEPTH - 1)
      => \A x \in 0 .. (BIT_DEPTH - 1) :
           LET y == LutValue(x, low, high)
           IN  /\ x < low.num => y = 0
               /\ x >= high.num => y = BIT_DEPTH - 1
               /\ x < BIT_DEPTH - 1 => y <= LutValue(x + 1, low, high)
               /\ (low.num <= x /\ x + 1 < high.num) => y < LutValue(x + 1, low, high)

\* C18: the equalized pixel of a cycle is (in - gate_low) * (BIT_DEPTH - 1) /
\* (gate_high - gate_low), truncated, for an integrated pixel in inside the gate;
\* and with 8-bit frames of value 125, gate_low = 50, gate_high = 200 and
\* integration, dark subtraction and overlay disabled the equalized pixel is 127.
C18_EqualizedValue ==
  upd_pc = "overlay" =>
    LET low == cycle_params.gate_low.num
        high == cycle_params.gate_high.num
        in == last_integrated_img.pix
    IN  /\ (low <= in /\ in < high) =>
             last_equalized_img.pix = ((in - low) * (BIT_DEPTH - 1)) \div (high - low)
        /\ (/\ scene = 125
            /\ low = 50
            /\ high = 200
            /\ cycle_params.integration = FALSE
            /\ cycle_params.subtract_dark = FALSE
            /\ cycle_params.overlay_static = FALSE)
           => last_equalized_img.pix = 127

---------------------------------------------------------------------------
(* The overlay *)

\* C19: a completed cycle whose parameters disable the overlay, or hold no static
\* image, publishes as final image its equalized image: same pixels, same shape
\* (one channel), whatever overlay_opacity.
C19_OverlayOffPassthrough ==
  (/\ upd_pc = "poll"
   /\ last_final_img # NoneImg
   /\ ~(cycle_params.static # NoneImg /\ cycle_params.overlay_static = TRUE))
  => /\ get_last_final_img = get_last_equalized_img
     /\ get_last_final_img.shape = "frame"
     /\ get_last_final_img.overlay = -1

\* C19: a static image is set and the overlay is disabled, at opacity 30, in a
\* later cycle than the first: the final image is the equalized image
C19_Witness ==
  /\ upd_pc = "poll"
  /\ cycle_params.static # NoneImg
  /\ cycle_params.overlay_static = FALSE
  /\ cycle_params.overlay_opacity = 30
  /\ cycle = MaxCycles
  /\ last_final_img.cycle = cycle
  /\ last_final_img = last_equalized_img

---------------------------------------------------------------------------
(* The reference images *)

\* C20: take_dark_img / take_static_img return without a change of the parameter
\* queue, the parameters and the files when no equalized image is published;
\* otherwise they enqueue the update (key, current equalized image) and then
\* write the current equalized image to the file of the key.  Nothing else is
\* enqueued or written.
C20_TakeImg ==
  [][/\ (caller_pc = "take_check" /\ caller_pc' # "take_check") =>
          /\ UNCHANGED <<parameters_queue, params, disk>>
          /\ caller_pc' = IF get_last_equalized_img = NoneImg
                          THEN "idle" ELSE "take_put"
     /\ (caller_pc = "take_put" /\ caller_pc' # "take_put") =>
          /\ get_last_equalized_img # NoneImg
          /\ parameters_queue' =
               Append(parameters_queue, <<take_key, get_last_equalized_img>>)
          /\ UNCHANGED disk
          /\ caller_pc' = "take_write"
     /\ (caller_pc = "take_write" /\ caller_pc' # "take_write") =>
          /\ get_last_equalized_img # NoneImg
          /\ disk' = [disk EXCEPT ![take_key] = get_last_equalized_img]
          /\ UNCHANGED parameters_queue
          /\ caller_pc' = "idle"
     /\ caller_pc # "take_put" => Len(parameters_queue') <= Len(parameters_queue)
     /\ caller_pc # "take_write" => UNCHANGED disk]_vars

\* C20: take_dark_img has returned, the processing thread has drained the update
\* and images/dark.png holds the image that is now the dark frame
C20_Witness ==
  /\ caller_pc = "idle"
  /\ disk.dark # NoneImg
  /\ Len(parameters_queue) = 0
  /\ params.dark = disk.dark
  /\ disk.static = NoneImg


---------------------------------------------------------------------------
(* Parameter updates that keep arriving while the processing thread drains *)

InitStall == Grabbed(MaxSnapsLive)

\* The processing thread on a history that holds a frame, and a caller of
\* update_param who enqueues at any time
NextStall ==
  \/ CallUpdateParam(LiveUpdates, MaxPending)
  \/ UpdateThread

\* threading.Thread: the processing thread is scheduled again and again.  Nothing
\* is assumed about the caller.
SpecStall ==
  /\ InitStall
  /\ [][NextStall]_vars
  /\ WF_vars(UpdateThread)

\* C21: with frames in the history, a processing thread that is in its drain
\* loop always gets to publish the results of a cycle, whatever the caller of
\* update_param does in the meantime
C21_DrainEndsAndPublishes ==
  (upd_pc = "drain" /\ Len(img_queue) > 0) ~> (upd_pc = "poll")


---------------------------------------------------------------------------
(* The integration loop next to a running acquisition thread *)

\* the updates of specification SpecBlend: integration over three frames
BlendUpdates == { <<"integration", TRUE>>, <<"integration_val", 3>> }

InitBlend == Grabbed(MaxBlendGrabbed)

\* Both threads and a caller of update_param: frames arrive while the
\* integration loop runs
NextBlend ==
  \/ CallUpdateParam(BlendUpdates, MaxPending)
  \/ SnapThread(MaxBlendGrabbed + MaxBlendSnaps)
  \/ UpdateThread

SpecBlend == InitBlend /\ [][NextBlend]_vars

\* C22: the frames an integration loop has blended so far are distinct and
\* consecutive in arrival order, the first of them (offset 0) being the newest:
\* no frame is blended twice and none is skipped
C22_BlendIsOneWindow ==
  \A j \in 1..Len(result.blend) : result.blend[j] = result.blend[1] - (j - 1)

\* the effective weights after k iterations of the integration loop over n
\* frames, as numerators over n^k, in the order of the iterations: iteration i
\* scales what was accumulated by i / n and adds the frame at offset i with
\* (n - i) / n
RECURSIVE BlendWeights(_, _)
BlendWeights(n, k) ==
  IF k = 0 THEN << >>
  ELSE LET prev == BlendWeights(n, k - 1)
           it == k - 1
       IN [j \in 1..k |-> IF j < k THEN prev[j] * it ELSE (n - it) * n^(k - 1)]

RECURSIVE SumSeq(_)
SumSeq(s) == IF s = << >> THEN 0 ELSE Head(s) + SumSeq(Tail(s))

\* C23: when the integration loop has ended over n >= 2 frames, the frames were
\* taken from the oldest of the window to the newest, their effective weights
\* sum to 1 and no frame outweighs the newest one (the frame at offset 0)
C23_NewestWeighsMost ==
  (upd_pc = "subtract" /\ params.integration = TRUE /\ nb_images >= 2
     /\ Len(result.blend) = nb_images)
  => LET w == BlendWeights(nb_images, nb_images)
     IN /\ SumSeq(w) = nb_images ^ nb_images
        /\ \A j \in 1..nb_images : w[j] <= w[1]
        /\ \A j \in 2..nb_images : result.blend[j - 1] <= result.blend[j]


---------------------------------------------------------------------------
(* The integration window on a history that fills up and evicts *)

\* the updates of specification SpecWin: integration over the longest window
WinUpdates == { <<"integration", TRUE>>, <<"integration_val", MAX_INTEGRATION_LEN>> }

\* the history is full
InitWin == Grabbed(MAX_INTEGRATION_LEN)

\* Both threads and a caller of update_param; a frame that arrives makes the
\* history overflow and evict
NextWin ==
  \/ CallUpdateParam(WinUpdates, MaxPending)
  \/ SnapThread(MAX_INTEGRATION_LEN + MaxWinSnaps)
  \/ UpdateThread

SpecWin == InitWin /\ [][NextWin]_vars

\* C24: the integration loop takes n = min(integration_val, length of the
\* history) when it begins, and whenever it is about to read the frame at offset
\* i < n the history holds more than i frames, so the loop never ends on an
\* index error
C24_WindowWithinHistory ==
  /\ [][(upd_pc = "integrate" /\ upd_pc' = "blend")
          => nb_images' = Min(params.integration_val, Len(img_queue))]_vars
  /\ []((upd_pc = "blend" /\ i < nb_images) => i + 1 <= Len(img_queue))
  /\ [](upd_pc # "dead")

\* C24: the last iteration of a loop over 50 frames, on a history that has
\* appended and evicted since the loop began
C24_Witness ==
  /\ upd_pc = "blend"
  /\ nb_images = MAX_INTEGRATION_LEN
  /\ i = nb_images - 1
  /\ Len(img_queue) = MAX_INTEGRATION_LEN
  /\ nsnap > MAX_INTEGRATION_LEN
  /\ result.newest < nsnap


---------------------------------------------------------------------------
(* The whole pipeline: integration, dark subtraction, gate, overlay *)

\* images/ in specification SpecPipe: empty, or a dark frame and a static image
\* of the shape of the frames (the gate needs no switch: every cycle applies it)
PipeDisks ==
  { NoDisk,
    [dark |-> StoredImg(FramePixel(1), "frame"),
     static |-> StoredImg(FramePixel(10), "frame")] }

\* the updates of specification SpecPipe: the switch of each optional step
PipeUpdates ==
  { <<"integration", TRUE>>, <<"subtract_dark", TRUE>>, <<"overlay_static", TRUE>> }

InitPipe == \E d \in PipeDisks : Constructed(d, DarkScene)

\* Both threads and a caller who switches the pipeline steps on
NextPipe ==
  \/ Start
  \/ CallUpdateParam(PipeUpdates, MaxPending)
  \/ SnapThread(MaxSnapsLive)
  \/ UpdateThread

SpecPipe == InitPipe /\ [][NextPipe]_vars

\* the order in which a processing cycle goes through its steps
PipelineOrder ==
  { <<"integrate", "blend">>, <<"integrate", "subtract">>, <<"blend", "subtract">>,
    <<"subtract", "gate">>, <<"gate", "overlay">>, <<"overlay", "poll">> }

\* C25: a cycle goes through integration, dark subtraction, gate and overlay in
\* this order, and when it has ended the integrated image is the blended and
\* dark-subtracted frame before any gate, the equalized image is the LUT of that
\* very image under the gate of the cycle, and the final image is the equalized
\* image, composited with the static image when the overlay is on
C25_PipelineOrder ==
  /\ [][(upd_pc \in {"integrate", "blend", "subtract", "gate", "overlay"}
          /\ upd_pc' # upd_pc) => <<upd_pc, upd_pc'>> \in PipelineOrder]_vars
  /\ []((upd_pc = "poll" /\ last_final_img # NoneImg) =>
        LET a == last_integrated_img
            e == last_equalized_img
            f == last_final_img
            p == cycle_params
        IN  /\ a.gate = << >> /\ a.overlay = -1
            /\ (p.integration = TRUE) <=> (a.blend # << >>)
            /\ IF p.dark # NoneImg /\ p.subtract_dark = TRUE
               THEN /\ a.sub = "subtract"
                    /\ a.pix = CvSubtract(FramePixel(scene), p.dark.pix)
               ELSE /\ a.sub = "none"
                    /\ a.pix = FramePixel(scene)
            /\ e.gate = <<p.gate_low, p.gate_high>>
            /\ e.pix \in lut_func(a.pix, p.gate_low, p.gate_high)
            /\ e = [a EXCEPT !.gate = e.gate, !.pix = e.pix]
            /\ IF p.static # NoneImg /\ p.overlay_static = TRUE
               THEN f = [e EXCEPT !.overlay = p.overlay_opacity, !.shape = "bgr"]
               ELSE f = e)

\* C25: a cycle has ended with every step switched on
C25_Witness ==
  /\ upd_pc = "poll"
  /\ last_integrated_img.blend # << >>
  /\ last_integrated_img.sub = "subtract"
  /\ last_integrated_img.gate = << >>
  /\ last_equalized_img.gate = <<PyInt(1), PyInt(BIT_DEPTH - 1)>>
  /\ last_equalized_img.pix \in lut_func(last_integrated_img.pix, PyInt(1),
                                           PyInt(BIT_DEPTH - 1))
  /\ last_equalized_img.overlay = -1
  /\ last_final_img.overlay = 50
  /\ last_final_img.cycle = last_integrated_img.cycle


---------------------------------------------------------------------------
(* The processing loop while no frame has arrived *)

\* the processing thread as far as an empty history lets it go
UpdateThreadIdle == UpdDrain \/ UpdRead \/ UpdPoll

\* Both threads, a camera whose every capture fails, and a caller of start, stop
\* and update_param
NextIdle ==
  \/ Start
  \/ Stop
  \/ CallUpdateParam(DrainUpdates, MaxPending)
  \/ SnapCapture(0)
  \/ SnapExcept
  \/ SnapPoll
  \/ UpdateThreadIdle

\* threading.Thread: the processing thread is scheduled again and again
SpecIdle ==
  /\ Init
  /\ [][NextIdle]_vars
  /\ WF_vars(UpdateThreadIdle)

\* C26: while the history is empty the three published images are null; a cycle
\* that finds the history empty goes straight to the poll of its control queue and
\* publishes nothing; it has drained the parameter queue before (the parameters
\* hold every update enqueued once the queue is empty); and a stop() that waits
\* for the processing thread gets its end without any frame
C26_IdleCycle ==
  /\ [](Len(img_queue) = 0 =>
          /\ last_integrated_img = NoneImg
          /\ last_equalized_img = NoneImg
          /\ last_final_img = NoneImg)
  /\ [][(upd_pc = "read" /\ Len(img_queue) = 0 /\ upd_pc' # upd_pc) =>
          /\ upd_pc' = "poll"
          /\ UNCHANGED <<last_integrated_img, last_equalized_img, last_final_img>>]_vars
  /\ [][(upd_pc = "drain" /\ upd_pc' = "read") => Len(parameters_queue) = 0]_vars
  /\ []((upd_pc = "read" /\ Len(parameters_queue) = 0 /\ put_item = << >>)
          => params = shadow)
  /\ (caller_pc = "join_update" /\ Len(img_queue) = 0) ~> (upd_pc = "done")

\* C26: stop() has got the end of the processing thread, which had drained an
\* update, on a history that never held a frame
C26_Witness ==
  /\ Len(img_queue) = 0
  /\ nsnap = 0
  /\ upd_pc = "done"
  /\ caller_pc = "join_snap"
  /\ params.gate_low = PyFloat(2)
  /\ last_final_img = NoneImg


---------------------------------------------------------------------------
(* The working depth chosen by the constructor *)

\* CameraHandler(...) with _INPUT_BIT_DEPTH = 2^k for every k up to MaxInputBits
InitDepth == \E k \in 1..MaxInputBits : ConstructedFor(k, NoDisk, DefaultScene)

\* start() and the acquisition thread, which scales the frames
NextDepth ==
  \/ Start
  \/ SnapThread(MaxSnapsLive)

SpecDepth == InitDepth /\ [][NextDepth]_vars

\* C27: for _INPUT_BIT_DEPTH = 2^k the working type is w bits wide with
\* w in {8, 16, 32, 64} and w >= k, BIT_DEPTH is 2^w, the scale factor is
\* 2^(w - k), and the largest input pixel 2^k - 1 times the factor is below
\* BIT_DEPTH
C27_DepthAndScale ==
  /\ depth.bits \in {8, 16, 32, 64}
  /\ depth.bits >= depth.k
  /\ depth.bit_depth = [zero |-> FALSE, log2 |-> depth.bits]
  /\ depth.mult = [zero |-> FALSE, log2 |-> depth.bits - depth.k]
  /\ depth.k + depth.mult.log2 <= depth.bits


---------------------------------------------------------------------------
(* The GUI: the histogram thread of ContrastPlot and the shutdown sequence of
   TkInterface.  ContrastPlot._data_queue stays empty (update_gate is called by
   BasicProcessing only, which TkInterface does not create), so the part of an
   iteration that drains it does nothing. *)

camVars == <<img_queue, pixels, snap_pc, snap_thread_queue, update_thread_queue,
             parameters_queue, upd_pc, params, result, nb_images, i, gate,
             last_integrated_img, last_equalized_img, last_final_img,
             caller_pc, put_item, take_key, disk, scene, depth,
             nsnap, cycle, cycle_params, drained, shadow,
             pushes_after_exit, publishes_after_exit, stop_returned>>

\* ContrastPlot._thread.is_alive()
PlotAlive == plot_pc \notin {"unstarted", "done"}

\* main.py: cam_handler.start(), before the GUI is built and entered
MainStart == gui_pc = "init" /\ Start

\* TkInterface.mainloop: self._contrast.start(), then tkinter.mainloop()
MainLoop ==
  /\ gui_pc = "init"
  /\ upd_pc # "unstarted"
  /\ gui_pc' = "mainloop"
  /\ plot_pc' = IF plot_pc = "unstarted" THEN "control" ELSE plot_pc
  /\ UNCHANGED <<pause_render, running, thread_stop_queue>>
  /\ UNCHANGED camVars

\* pre_exiting (the Exit button or the close box): stop_rendering() puts
\* PauseRender and window.after(100, self._exiting) arms the timer.  The window
\* stays live until the timer fires, so the button can be pressed again.
PreExiting ==
  /\ gui_pc \in {"mainloop", "timer"}
  /\ Len(thread_stop_queue) < MaxPauseCmds
  /\ thread_stop_queue' = Append(thread_stop_queue, "PauseRender")
  /\ gui_pc' = "timer"
  /\ UNCHANGED <<plot_pc, pause_render, running>>
  /\ UNCHANGED camVars

\* _exiting, when the timer fires: self._contrast.stop(), that is
\* if self._thread.is_alive(): put("Exit"); join()
ExitingStopPlot ==
  /\ gui_pc = "timer"
  /\ IF PlotAlive
     THEN /\ thread_stop_queue' = Append(thread_stop_queue, "Exit")
          /\ gui_pc' = "join_plot"
     ELSE /\ gui_pc' = "stop_cam"
          /\ UNCHANGED thread_stop_queue
  /\ UNCHANGED <<plot_pc, pause_render, running>>
  /\ UNCHANGED camVars

\* self._thread.join() returns once the histogram thread has ended
ExitingJoinPlot ==
  /\ gui_pc = "join_plot"
  /\ plot_pc = "done"
  /\ gui_pc' = "stop_cam"
  /\ UNCHANGED <<plot_pc, pause_render, running, thread_stop_queue>>
  /\ UNCHANGED camVars

\* _exiting: self._cam_handler.stop()
ExitingStopCam == gui_pc = "stop_cam" /\ Stop

\* _exiting: stop() has returned; self._window.quit() and destroy()
ExitingQuit ==
  /\ gui_pc = "stop_cam"
  /\ caller_pc = "idle"
  /\ ~IsAlive(upd_pc)
  /\ ~IsAlive(snap_pc)
  /\ gui_pc' = "quit"
  /\ UNCHANGED <<plot_pc, pause_render, running, thread_stop_queue>>
  /\ UNCHANGED camVars

\* _thread_update_function, first part of an iteration:
\* if not control_queue.empty(): cmd = control_queue.get(), one command at most
PlotControl ==
  /\ plot_pc = "control"
  /\ IF Len(thread_stop_queue) > 0
     THEN /\ thread_stop_queue' = Tail(thread_stop_queue)
          /\ pause_render' = (pause_render \/ Head(thread_stop_queue) = "PauseRender")
          /\ running' = (running /\ Head(thread_stop_queue) # "Exit")
     ELSE UNCHANGED <<thread_stop_queue, pause_render, running>>
  /\ plot_pc' = "draw"
  /\ UNCHANGED gui_pc
  /\ UNCHANGED camVars

\* _thread_update_function, second part: the histogram of
\* get_last_integrated_img(), the axes, and if not pause_render:
\* self._canvas.draw().  A draw made while the main thread is blocked in join is
\* a Tk call that the main loop cannot serve: depending on the Tcl build it is
\* carried out by the calling thread or it waits for the main loop for ever.
PlotDraw ==
  /\ plot_pc = "draw"
  /\ IF ~pause_render /\ gui_pc = "join_plot"
     THEN plot_pc' \in {"sleep", "frozen"}
     ELSE plot_pc' = "sleep"
  /\ UNCHANGED <<gui_pc, pause_render, running, thread_stop_queue>>
  /\ UNCHANGED camVars

\* time.sleep(self._s_per_frames) and the test of while running
PlotSleep ==
  /\ plot_pc = "sleep"
  /\ plot_pc' = IF running THEN "control" ELSE "done"
  /\ UNCHANGED <<gui_pc, pause_render, running, thread_stop_queue>>
  /\ UNCHANGED camVars

PlotThread == PlotControl \/ PlotDraw \/ PlotSleep

\* main.py and the GUI: both threads of the camera handler, the histogram thread
\* and the Tk main thread from mainloop() to the end of _exiting
NextGui ==
  \/ MainStart
  \/ MainLoop
  \/ PreExiting
  \/ ExitingStopPlot
  \/ ExitingJoinPlot
  \/ ExitingStopCam
  \/ ExitingQuit
  \/ PlotThread
  \/ SnapThread(MaxSnapsLive)
  \/ UpdateThreadNoBlend

SpecGui == Init /\ [][NextGui]_vars

\* C28: the histogram thread has taken PauseRender when it takes Exit, it makes
\* no canvas draw while the main thread is blocked in the join of
\* ContrastPlot.stop(), and once it has taken Exit its next pass through the
\* loop test ends it
C28_NoDrawWhileJoining ==
  /\ [](~running => pause_render)
  /\ [][(plot_pc = "draw" /\ plot_pc' # "draw" /\ ~pause_render)
          => gui_pc # "join_plot"]_vars
  /\ [][(plot_pc = "sleep" /\ plot_pc' # "sleep" /\ ~running)
          => plot_pc' = "done"]_vars
  /\ [](plot_pc # "frozen")


---------------------------------------------------------------------------
(* take_dark_img / take_static_img next to a publishing processing thread *)

\* C29: when take_dark_img / take_static_img writes its file, the image it
\* writes is the image it has enqueued as the new reference (the value last
\* enqueued for the key)
C29_StoredIsEnqueued ==
  [][(caller_pc = "take_write" /\ caller_pc' = "idle")
       => disk'[take_key] = shadow[take_key]]_vars


---------------------------------------------------------------------------
(* The calls that follow stop() *)

\* the button of take_dark_img is pressed by a caller that leaves fewer than
\* maxPending updates pending
CallTakeDark(maxPending) ==
  /\ Len(parameters_queue) < maxPending
  /\ TakeImgCall("dark")

\* Both threads and a caller of start, stop, update_param and take_dark_img, in
\* any order; the return of stop() is recorded
NextQuiet ==
  \/ Start
  \/ StopLogged
  \/ CallUpdateParam(LiveUpdates, MaxPending)
  \/ CallTakeDark(MaxPending)
  \/ TakeImgCheck
  \/ TakeImgPut
  \/ TakeImgWrite
  \/ SnapThread(MaxSnapsLive)
  \/ UpdateThread

SpecQuiet == Init /\ [][NextQuiet]_vars

\* a thread that has run and ended
Ended(pc) == pc \in {"done", "dead"}

\* C30: once a call of stop() has returned, no frame is pushed and no published
\* result changes any more, whatever is called afterwards; and a loop only ever
\* begins on a thread that has not run before
C30_QuiescentAfterStop ==
  /\ [][stop_returned =>
          /\ img_queue' = img_queue
          /\ UNCHANGED <<last_integrated_img, last_equalized_img, last_final_img>>]_vars
  /\ [][(~IsAlive(snap_pc) /\ IsAlive(snap_pc')) => snap_pc = "unstarted"]_vars
  /\ [][(~IsAlive(upd_pc) /\ IsAlive(upd_pc')) => upd_pc = "unstarted"]_vars

\* C30 as the code has it: a stop() that had a thread to wait for returns with
\* both loops ended; once a loop has ended it stays ended, the acquisition loop
\* pushes no frame and the processing loop changes no published result any more,
\* whatever is called afterwards; and a loop only ever begins on a thread that
\* has not run before.  (A stop() on a handler that was never started returns at
\* once and leaves it free to be started.)
C30_QuiescentOnceEnded ==
  /\ [][(caller_pc \in {"join_update", "join_snap"} /\ caller_pc' = "idle")
          => (Ended(upd_pc') /\ Ended(snap_pc') /\ stop_returned')]_vars
  /\ [][Ended(snap_pc) => (snap_pc' = snap_pc /\ img_queue' = img_queue)]_vars
  /\ [][Ended(upd_pc) =>
          /\ upd_pc' = upd_pc
          /\ UNCHANGED <<last_integrated_img, last_equalized_img, last_final_img>>]_vars
  /\ [][(~IsAlive(snap_pc) /\ IsAlive(snap_pc')) => snap_pc = "unstarted"]_vars
  /\ [][(~IsAlive(upd_pc) /\ IsAlive(upd_pc')) => upd_pc = "unstarted"]_vars

\* C30: stop() has returned with both loops ended after frames were processed,
\* and take_dark_img has been called since: its update stays in the queue
C30_Witness ==
  /\ stop_returned
  /\ caller_pc = "idle"
  /\ upd_pc = "done"
  /\ snap_pc = "done"
  /\ last_final_img # NoneImg
  /\ disk.dark = last_equalized_img
  /\ Len(parameters_queue) > 0

====
